---- MODULE Spec2Model ----
(***************************************************************************)
(* Model of notify.py: the NotifyBot poll loop (_poll_gpu, _query_once),   *)
(* the privileged chat commands (_occupy, _release, _set_interval), the    *)
(* open ones (_register, _echo, _get_gpu, _get_gpu_quick) and pbar.        *)
(*                                                                         *)
(* Spec is the bot as a whole; SpecQuery and SpecBar run _query_once and   *)
(* pbar on their own inputs, SpecPoll the poll loop with several users on  *)
(* a device, SpecLive the poll loop, fair, over devices that change.       *)
(*                                                                         *)
(* The poll loop runs on the main thread; the command handlers run on the  *)
(* dispatcher thread of the Updater.  The poll loop shares only            *)
(* self.interval (read at time.sleep) with the handlers, so one poll       *)
(* cycle after the sleep is one action and one handler call is one action. *)
(***************************************************************************)
EXTENDS Integers, Sequences, FiniteSets, TLC

\* ---------------------------------------------------------------- bounds
MaxGPU == 1                      \* largest device count nvmlDeviceGetCount() reports
MaxHandles == 2                  \* longest handle list given to _query_once on its own
MaxTotal == 6                    \* largest info.total given to pbar on its own
MaxWidth == 4                    \* largest size given to pbar on its own, besides 24

\* ------------------------------------------------------ program constants
GiB == 1073741824                \* 1024**3
thresh_gb == 1                   \* _query_once: thresh_gb = 1
DefaultInterval == 5             \* __init__: self.interval = 5
MinInterval == 1                 \* _set_interval: new_interval < 1
MaxInterval == 60 * 60           \* _set_interval: new_interval > 60 * 60
Attempts == 3                    \* _occupy: for _ in range(3)
BarWidth == 24                   \* get_usage_msg: pbar(info.used, info.total, 24)

\* config["whitelist"]: loaded once in __init__, never written afterwards
Whitelist == <<1, 2, 3>>
InWhitelist(user_id) == \E i \in 1..Len(Whitelist) : Whitelist[i] = user_id

\* ------------------------------------------------- environment: inputs
Senders == {1, 9}                                   \* update.message.from_user.id
Usernames == {"chunqiu2", "alice"}                  \* Process.username()
ProcLists == {<<"chunqiu2">>}                       \* compute processes of a device in use
UsedVals == {GiB, GiB + 1}                          \* nvmlDeviceGetMemoryInfo().used
\* the same two inputs, in more detail, where _query_once is examined on its own
QueryProcLists == {<<>>, <<"chunqiu2">>, <<"alice">>, <<"alice", "chunqiu2">>}
QueryUsedVals == {0, GiB - 1, GiB, GiB + 1}
FreeVals == {100}                                   \* nvmlDeviceGetMemoryInfo().free
IntervalInputs == {0, 1, 3600, 3601}                \* /set_interval <n>
SendOutcomes == {"ok", "Unauthorized", "NetworkError"}  \* bot.send_message result

\* A command argument is a string; int(arg) succeeds on a numeral only.
Tok(n) == [num |-> TRUE, val |-> n]
NotANumber == [num |-> FALSE, val |-> 0]

VARIABLES
    nGPU,         \* pynvml.nvmlDeviceGetCount()
    world,        \* environment: what the devices show, where it is tracked (SpecLive);
                  \* elsewhere a read of the devices returns any value
    interval,     \* self.interval
    cuda_buffers, \* self.cuda_buffers : gid -> device array
    held,         \* live device arrays of this process, per gid
    old_states,   \* _poll_gpu: old_states
    pc,           \* _poll_gpu: "sleep" (at time.sleep), "query" (after it), "dead"
    sleeping,     \* the argument of the time.sleep in progress (0: none)
    lastGood,     \* history: new_states of the last cycle that queried and ran to its end
    polled,       \* history: some cycle's _query_once has returned
    last          \* history: what the last poll cycle or handler call did

vars == <<nGPU, world, interval, cuda_buffers, held, old_states, pc, sleeping, lastGood,
          polled, last>>

Devices == 0..(nGPU - 1)

\* ------------------------------------------------------------ usage bar
\* round(num / den) of Python 3 for num >= 0, den > 0: to the nearest integer,
\* a tie to the even one.
RoundHalfEven(num, den) ==
    LET q == num \div den
        r == num % den
    IN  IF 2 * r < den THEN q
        ELSE IF 2 * r > den THEN q + 1
        ELSE IF q % 2 = 0 THEN q ELSE q + 1

\* pbar: range(sep + 1) '#' characters, then range(sep + 1, size) blanks
PBar(current, maximum, size) ==
    LET sep == RoundHalfEven(current * size, maximum)
    IN  [filled |-> sep + 1,
         blank |-> IF size > sep + 1 THEN size - (sep + 1) ELSE 0]

NoBar == [current |-> 0, maximum |-> 0, size |-> 0, filled |-> 0, blank |-> 0]

\* --------------------------------------------------------------- labels
None == [tag |-> "None", users |-> <<>>]
AVAILABLE == [tag |-> "AVAILABLE", users |-> <<>>]
OCCUPIED(users) == [tag |-> "OCCUPIED", users |-> users]

\* _query_once: the emoji appended to a user name
Decorate(name) ==
    CASE name = "chunqiu2" -> <<name, "snake">>
      [] name = "ywei40"   -> <<name, "poo">>
      [] name = "yifeng6"  -> <<name, "bee">>
      [] name = "shizhuo2" -> <<name, "wheel">>
      [] name = "yinlind2" -> <<name, "tree">>
      [] name = "cy54"     -> <<name, "fishing">>
      [] OTHER             -> <<name, "money">>

\* used_gb > thresh_gb with used_gb = info.used / (1024**3): the division by a
\* power of two is exact in binary floating point, so the comparison is the
\* comparison of the byte counts.
\* (used_gb >= thresh_gb instead)
OverThresholdInclusive(used) == used >= thresh_gb * GiB

OverThreshold(used) == used > thresh_gb * GiB

\* _query_once: the state of one device
DeviceState(info) ==
    IF OverThreshold(info.used)
    THEN OCCUPIED([i \in 1..Len(info.procs) |-> Decorate(info.procs[i])])
    ELSE AVAILABLE

\* _query_once: new_states (device i of the code is index i + 1 here)
QueryStates(obs) == [i \in 1..Len(obs) |-> DeviceState(obs[i])]

\* ------------------------------------------------------------ broadcast
\* except telegram.error.Unauthorized: the only delivery failure the loops catch
Caught(outcome) == outcome = "Unauthorized"

\* for chat_id in self._whitelist: try: send_message(...) except Unauthorized: print(...)
\* outs[i] is what send_message does for the i-th whitelist entry; an exception
\* that is not caught leaves the loop (and its caller) at once.
RECURSIVE SendAll(_, _)
SendAll(i, outs) ==
    IF i > Len(Whitelist)
    THEN [sends |-> <<>>, escaped |-> FALSE]
    ELSE LET s == [to |-> Whitelist[i], result |-> outs[i]]
         IN  IF outs[i] = "ok" \/ Caught(outs[i])
             THEN LET rest == SendAll(i + 1, outs)
                  IN  [sends |-> <<s>> \o rest.sends, escaped |-> rest.escaped]
             ELSE [sends |-> <<s>>, escaped |-> TRUE]

\* ----------------------------------------------------------- poll cycle
\* (if new_states == old_states)
DiffersInverted(new_states, old) == new_states = old

\* if new_states != old_states
Differs(new_states, old) == new_states # old

\* handles = [...] raised: the exception is outside the try and ends _poll_gpu
EscapedCycle(old) ==
    [pc |-> "dead", old_states |-> old, bcast |-> "none", sends |-> <<>>]

\* (the except branch forgets the state: old_states = [None] * count)
ErrorCycleForgets(old, outs) ==
    LET b == SendAll(1, outs)
    IN  [pc |-> IF b.escaped THEN "dead" ELSE "sleep",
         old_states |-> [i \in 1..Len(old) |-> None], bcast |-> "error", sends |-> b.sends]

\* except Exception: send format_exc() to the whitelist; continue
ErrorCycle(old, outs) ==
    LET b == SendAll(1, outs)
    IN  [pc |-> IF b.escaped THEN "dead" ELSE "sleep",
         old_states |-> old, bcast |-> "error", sends |-> b.sends]

\* if new_states != old_states: send msg to the whitelist; old_states = new_states
StatusCycle(old, new_states, outs) ==
    IF Differs(new_states, old)
    THEN LET b == SendAll(1, outs)
         IN  [pc |-> IF b.escaped THEN "dead" ELSE "sleep",
              old_states |-> IF b.escaped THEN old ELSE new_states,
              bcast |-> "status", sends |-> b.sends]
    ELSE [pc |-> "sleep", old_states |-> old, bcast |-> "none", sends |-> <<>>]

\* ----------------------------------------------------- history record
NoEvent ==
    [kind |-> "init", name |-> "", sender |-> 0, args |-> <<>>, replies |-> <<>>,
     raised |-> FALSE, free |-> 0, script |-> <<>>, allocs |-> <<>>, wasHeld |-> FALSE,
     resets |-> <<>>, call |-> "none", bcast |-> "none", sends |-> <<>>,
     new_states |-> <<>>, obs |-> <<>>, bar |-> NoBar, first |-> FALSE]

\* ------------------------------------------------------------ handlers
Reply(text, arg) == [text |-> text, arg |-> arg]

Put(f, k, v) == [x \in (DOMAIN f) \cup {k} |-> IF x = k THEN v ELSE f[x]]
Remove(f, k) == [x \in (DOMAIN f) \ {k} |-> f[x]]

\* int(free * 0.95) and int(to_alloc * 0.8)
Scale95(x) == (x * 95) \div 100
Scale80(x) == (x * 8) \div 10

\* f"{to_alloc / (1024**3):f.1}": 'f.1' is no format specifier of float, so
\* building the reply text raises ValueError for every size.
FormatGB(size) == [ok |-> FALSE, text |-> size]

\* (the array the entry held before is kept alive)
StoreBlockLeaks(bufs, hld, gid, size) ==
    [cuda_buffers |-> Put(bufs, gid, size),
     held |-> [hld EXCEPT ![gid] = @ + 1]]

\* self.cuda_buffers[gid] = cuda.device_array(...): the new array is live, and
\* the array the entry held before, if any, loses its last reference.
StoreBlock(bufs, hld, gid, size) ==
    [cuda_buffers |-> Put(bufs, gid, size),
     held |-> [hld EXCEPT ![gid] = IF gid \in DOMAIN bufs THEN @ ELSE @ + 1]]

\* for _ in range(3): try: allocate, reply; break  except CudaAPIError: reply, shrink
RECURSIVE AllocLoop(_, _, _, _, _, _)
AllocLoop(k, to_alloc, gid, bufs, hld, script) ==
    IF k > Attempts
    THEN [cuda_buffers |-> bufs, held |-> hld, replies |-> <<>>, allocs |-> <<>>,
          raised |-> FALSE]
    ELSE LET f == FormatGB(to_alloc)
         IN  IF script[k]
             THEN LET st == StoreBlock(bufs, hld, gid, to_alloc)
                  IN  [cuda_buffers |-> st.cuda_buffers, held |-> st.held,
                       replies |-> IF f.ok THEN <<Reply("Allocated", f.text)>> ELSE <<>>,
                       allocs |-> <<to_alloc>>, raised |-> ~f.ok]
             ELSE IF f.ok
                  THEN LET rest == AllocLoop(k + 1, Scale80(to_alloc), gid, bufs, hld, script)
                       IN  [rest EXCEPT !.replies = <<Reply("CouldNotAllocate", f.text)>> \o @,
                                        !.allocs = <<to_alloc>> \o @]
                  ELSE [cuda_buffers |-> bufs, held |-> hld, replies |-> <<>>,
                        allocs |-> <<to_alloc>>, raised |-> TRUE]

Unchanged(bufs, hld, replies, raised) ==
    [cuda_buffers |-> bufs, held |-> hld, replies |-> replies, allocs |-> <<>>,
     raised |-> raised]

\* NotifyBot._occupy
OccupyResult(bufs, hld, n, user_id, args, free, script) ==
    IF ~InWhitelist(user_id)
    THEN Unchanged(bufs, hld, <<Reply("NotWhitelisted", user_id)>>, FALSE)
    ELSE IF Len(args) # 1
    THEN Unchanged(bufs, hld, <<Reply("UsageOcc", 0)>>, FALSE)
    ELSE IF ~args[1].num
    THEN Unchanged(bufs, hld, <<>>, TRUE)                     \* int() raises ValueError
    ELSE IF args[1].val < 0 \/ args[1].val >= n
    THEN Unchanged(bufs, hld, <<Reply("InvalidGPU", n - 1)>>, FALSE)
    ELSE AllocLoop(1, Scale95(free), args[1].val, bufs, hld, script)

\* del self.cuda_buffers[gid]: the array loses its last reference
DropBlock(hld, gid) == [hld EXCEPT ![gid] = @ - 1]

\* cuda.select_device(gid).reset(): every allocation of the context is destroyed
ResetDevice(hld, gid) == [hld EXCEPT ![gid] = 0]

\* (del self.cuda_buffers[gid] without the membership test: KeyError)
RECURSIVE ReleaseLoopKeyError(_, _, _)
ReleaseLoopKeyError(to_release, bufs, hld) ==
    IF to_release = <<>>
    THEN [cuda_buffers |-> bufs, held |-> hld, replies |-> <<>>, resets |-> <<>>,
          raised |-> FALSE]
    ELSE LET gid == Head(to_release)
         IN  IF gid \notin DOMAIN bufs
             THEN [cuda_buffers |-> bufs, held |-> hld, replies |-> <<>>,
                   resets |-> <<>>, raised |-> TRUE]
             ELSE LET rest == ReleaseLoopKeyError(Tail(to_release), Remove(bufs, gid),
                                                  ResetDevice(DropBlock(hld, gid), gid))
                  IN  [rest EXCEPT !.replies = <<Reply("Released", gid)>> \o @,
                                   !.resets = <<gid>> \o @]

\* (the entry is reported released and reset, but not deleted from the map)
RECURSIVE ReleaseLoopKeeps(_, _, _)
ReleaseLoopKeeps(to_release, bufs, hld) ==
    IF to_release = <<>>
    THEN [cuda_buffers |-> bufs, held |-> hld, replies |-> <<>>, resets |-> <<>>,
          raised |-> FALSE]
    ELSE LET gid == Head(to_release)
         IN  IF gid \notin DOMAIN bufs
             THEN LET rest == ReleaseLoopKeeps(Tail(to_release), bufs, hld)
                  IN  [rest EXCEPT !.replies = <<Reply("NotOccupied", gid)>> \o @]
             ELSE LET rest == ReleaseLoopKeeps(Tail(to_release), bufs, ResetDevice(hld, gid))
                  IN  [rest EXCEPT !.replies = <<Reply("Released", gid)>> \o @,
                                   !.resets = <<gid>> \o @]

\* for gid in to_release: ...
RECURSIVE ReleaseLoop(_, _, _)
ReleaseLoop(to_release, bufs, hld) ==
    IF to_release = <<>>
    THEN [cuda_buffers |-> bufs, held |-> hld, replies |-> <<>>, resets |-> <<>>,
          raised |-> FALSE]
    ELSE LET gid == Head(to_release)
         IN  IF gid \notin DOMAIN bufs
             THEN LET rest == ReleaseLoop(Tail(to_release), bufs, hld)
                  IN  [rest EXCEPT !.replies = <<Reply("NotOccupied", gid)>> \o @]
             ELSE LET rest == ReleaseLoop(Tail(to_release), Remove(bufs, gid),
                                          ResetDevice(DropBlock(hld, gid), gid))
                  IN  [rest EXCEPT !.replies = <<Reply("Released", gid)>> \o @,
                                   !.resets = <<gid>> \o @]

NoRelease(bufs, hld, replies, raised) ==
    [cuda_buffers |-> bufs, held |-> hld, replies |-> replies, resets |-> <<>>,
     raised |-> raised]

\* NotifyBot._release
ReleaseResult(bufs, hld, n, user_id, args) ==
    IF ~InWhitelist(user_id)
    THEN NoRelease(bufs, hld, <<Reply("NotWhitelisted", user_id)>>, FALSE)
    ELSE IF Len(args) > 1
    THEN NoRelease(bufs, hld, <<Reply("UsageRel", 0)>>, FALSE)
    ELSE IF Len(args) = 0
    THEN ReleaseLoop([i \in 1..n |-> i - 1], bufs, hld)       \* list(range(count))
    ELSE IF ~args[1].num
    THEN NoRelease(bufs, hld, <<>>, TRUE)                     \* int() raises ValueError
    ELSE LET gid == args[1].val
             r == ReleaseLoop(<<gid>>, bufs, hld)
         IN  IF gid < 0 \/ gid >= n                           \* replies, and goes on
             THEN [r EXCEPT !.replies = <<Reply("InvalidGPU", n - 1)>> \o @]
             ELSE r

\* (the whitelist test is missing)
SetIntervalUnchecked(cur, user_id, args) ==
    IF Len(args) # 1
    THEN [interval |-> cur, replies |-> <<Reply("UsageRel", 0)>>, raised |-> FALSE]
    ELSE IF ~args[1].num
    THEN [interval |-> cur, replies |-> <<>>, raised |-> TRUE]
    ELSE IF args[1].val < MinInterval \/ args[1].val > MaxInterval
    THEN [interval |-> cur, replies |-> <<Reply("IntervalRange", 0)>>, raised |-> FALSE]
    ELSE [interval |-> args[1].val, replies |-> <<Reply("IntervalSet", args[1].val)>>,
          raised |-> FALSE]

\* (the upper limit is not tested)
SetIntervalNoUpper(cur, user_id, args) ==
    IF ~InWhitelist(user_id)
    THEN [interval |-> cur, replies |-> <<Reply("NotWhitelisted", user_id)>>, raised |-> FALSE]
    ELSE IF Len(args) # 1
    THEN [interval |-> cur, replies |-> <<Reply("UsageRel", 0)>>, raised |-> FALSE]
    ELSE IF ~args[1].num
    THEN [interval |-> cur, replies |-> <<>>, raised |-> TRUE]
    ELSE IF args[1].val < MinInterval
    THEN [interval |-> cur, replies |-> <<Reply("IntervalRange", 0)>>, raised |-> FALSE]
    ELSE [interval |-> args[1].val, replies |-> <<Reply("IntervalSet", args[1].val)>>,
          raised |-> FALSE]

\* NotifyBot._set_interval
SetIntervalResult(cur, user_id, args) ==
    IF ~InWhitelist(user_id)
    THEN [interval |-> cur, replies |-> <<Reply("NotWhitelisted", user_id)>>, raised |-> FALSE]
    ELSE IF Len(args) # 1
    THEN [interval |-> cur, replies |-> <<Reply("UsageRel", 0)>>, raised |-> FALSE]
    ELSE IF ~args[1].num
    THEN [interval |-> cur, replies |-> <<>>, raised |-> TRUE]  \* int() raises ValueError
    ELSE IF args[1].val < MinInterval \/ args[1].val > MaxInterval
    THEN [interval |-> cur, replies |-> <<Reply("IntervalRange", 0)>>, raised |-> FALSE]
    ELSE [interval |-> args[1].val, replies |-> <<Reply("IntervalSet", args[1].val)>>,
          raised |-> FALSE]

\* ------------------------------------------------------------- actions
GpuArgs == {<<>>, <<NotANumber>>, <<Tok(0), Tok(0)>>} \cup {<<Tok(g)>> : g \in (-1)..MaxGPU}
IntervalArgs == {<<>>, <<NotANumber>>, <<Tok(1), Tok(1)>>} \cup {<<Tok(v)>> : v \in IntervalInputs}
\* What one cycle reads of a device: the used memory and, only when it is over
\* the threshold, the process list (get_user_info is not called otherwise).
DevObs == {[used |-> u, procs |-> IF OverThreshold(u) THEN p ELSE <<>>] :
              u \in UsedVals, p \in ProcLists}

\* What send_message does for each whitelist entry of one broadcast; the loop
\* makes no call after an exception it does not catch.
Deliveries ==
    {outs \in [1..Len(Whitelist) -> SendOutcomes] :
        \A i, j \in 1..Len(Whitelist) :
            (i < j /\ outs[i] # "ok" /\ ~Caught(outs[i])) => outs[j] = "ok"}
NoDelivery == [i \in 1..Len(Whitelist) |-> "ok"]

\* A device with no memory in use and no compute process
IdleDevice == [used |-> 0, procs |-> <<>>]

\* The part of the state __init__ and the first lines of _poll_gpu set up
Start ==
    /\ interval = DefaultInterval
    /\ cuda_buffers = [g \in {} |-> 0]
    /\ held = [g \in Devices |-> 0]
    /\ old_states = [i \in 1..nGPU |-> None]     \* [None] * nvmlDeviceGetCount()
    /\ pc = "sleep"
    /\ sleeping = 0
    /\ lastGood = [i \in 1..nGPU |-> None]
    /\ polled = FALSE
    /\ last = NoEvent

Init ==
    /\ nGPU \in 0..MaxGPU
    /\ world = [i \in 1..nGPU |-> IdleDevice]
    /\ Start

\* (the interval is read once, before the loop: time.sleep(5) ever after)
PollSleepCached ==
    /\ pc = "sleep"
    /\ sleeping' = DefaultInterval
    /\ pc' = "query"
    /\ last' = [NoEvent EXCEPT !.kind = "sleep"]
    /\ UNCHANGED <<nGPU, world, interval, cuda_buffers, held, old_states, lastGood, polled>>

\* time.sleep(self.interval)
PollSleep ==
    /\ pc = "sleep"
    /\ sleeping' = interval
    /\ pc' = "query"
    /\ last' = [NoEvent EXCEPT !.kind = "sleep"]
    /\ UNCHANGED <<nGPU, world, interval, cuda_buffers, held, old_states, lastGood, polled>>

\* first: no cycle before this one got the states from _query_once
PollEvent(call, r, new_states) ==
    [NoEvent EXCEPT !.kind = "poll", !.call = call, !.bcast = r.bcast,
                    !.sends = r.sends, !.new_states = new_states,
                    !.first = (call = "none" /\ ~polled)]

\* nvmlDeviceGetCount() or nvmlDeviceGetHandleByIndex(i) raises while the
\* handles are built: the statement is before the try
PollEscape ==
    /\ pc = "query"
    /\ \E call \in {"count"} \cup (IF nGPU > 0 THEN {"handle"} ELSE {}) :
          LET r == EscapedCycle(old_states)
          IN  /\ pc' = r.pc
              /\ old_states' = r.old_states
              /\ last' = PollEvent(call, r, <<>>)
    /\ sleeping' = 0
    /\ UNCHANGED <<nGPU, world, interval, cuda_buffers, held, lastGood, polled>>

\* nvmlDeviceGetMemoryInfo(handle) or get_user_info(handle) raises in _query_once
PollError ==
    /\ pc = "query"
    /\ nGPU > 0
    /\ \E call \in {"memory", "procs"}, outs \in Deliveries :
          LET r == ErrorCycle(old_states, outs)
          IN  /\ pc' = r.pc
              /\ old_states' = r.old_states
              /\ last' = PollEvent(call, r, <<>>)
    /\ sleeping' = 0
    /\ UNCHANGED <<nGPU, world, interval, cuda_buffers, held, lastGood, polled>>

\* _query_once returns what it read (obs): diff, broadcast, store.  sent: what
\* the deliveries of a broadcast can do.
PollCycle(obs, sent) ==
    /\ pc = "query"
    /\ LET new_states == QueryStates(obs)
       IN  \E outs \in IF Differs(new_states, old_states) THEN sent ELSE {NoDelivery} :
              LET r == StatusCycle(old_states, new_states, outs)
              IN  /\ pc' = r.pc
                  /\ old_states' = r.old_states
                  /\ lastGood' = IF r.pc = "sleep" THEN new_states ELSE lastGood
                  /\ last' = PollEvent("none", r, new_states)
    /\ sleeping' = 0
    /\ polled' = TRUE
    /\ UNCHANGED <<nGPU, world, interval, cuda_buffers, held>>

\* a cycle that reads any of the values S a device can show
PollStatusOn(S) == \E obs \in [1..nGPU -> S] : PollCycle(obs, Deliveries)

PollStatus == PollStatusOn(DevObs)

\* The memory query and the allocator are not called by a handler that
\* returns before the loop: one representative input stands for all.
NoFree == CHOOSE f \in FreeVals : TRUE
NoScript == [k \in 1..Attempts |-> TRUE]

\* CommandHandler("occ", self._occupy)
Occupy ==
    \E user_id \in Senders, args \in GpuArgs, free \in FreeVals,
       script \in [1..Attempts -> BOOLEAN] :
       LET r == OccupyResult(cuda_buffers, held, nGPU, user_id, args, free, script)
           tried == r.allocs # <<>>
       IN  /\ tried \/ (free = NoFree /\ script = NoScript)
           /\ cuda_buffers' = r.cuda_buffers
           /\ held' = r.held
           /\ last' = [NoEvent EXCEPT !.kind = "cmd", !.name = "occ", !.sender = user_id,
                                      !.args = args, !.replies = r.replies,
                                      !.raised = r.raised, !.allocs = r.allocs,
                                      !.free = IF tried THEN free ELSE 0,
                                      !.script = IF tried THEN script ELSE <<>>,
                                      !.wasHeld = tried /\ args[1].val \in DOMAIN cuda_buffers]
           /\ UNCHANGED <<nGPU, world, interval, old_states, pc, sleeping, lastGood, polled>>

\* CommandHandler("rel", self._release)
Release ==
    \E user_id \in Senders, args \in GpuArgs :
       LET r == ReleaseResult(cuda_buffers, held, nGPU, user_id, args)
       IN  /\ cuda_buffers' = r.cuda_buffers
           /\ held' = r.held
           /\ last' = [NoEvent EXCEPT !.kind = "cmd", !.name = "rel", !.sender = user_id,
                                      !.args = args, !.replies = r.replies,
                                      !.raised = r.raised, !.resets = r.resets]
           /\ UNCHANGED <<nGPU, world, interval, old_states, pc, sleeping, lastGood, polled>>

\* CommandHandler("set_interval", self._set_interval)
SetInterval ==
    \E user_id \in Senders, args \in IntervalArgs :
       LET r == SetIntervalResult(interval, user_id, args)
       IN  /\ interval' = r.interval
           /\ last' = [NoEvent EXCEPT !.kind = "cmd", !.name = "set_interval",
                                      !.sender = user_id, !.args = args,
                                      !.replies = r.replies, !.raised = r.raised]
           /\ UNCHANGED <<nGPU, world, cuda_buffers, held, old_states, pc, sleeping, lastGood, polled>>

\* CommandHandler("start", self._register)
Register ==
    /\ \E user_id \in Senders :
          last' = [NoEvent EXCEPT !.kind = "cmd", !.name = "start", !.sender = user_id,
                                  !.replies = IF InWhitelist(user_id)
                                              THEN <<Reply("Hi", 0)>>
                                              ELSE <<Reply("NotWhitelisted", user_id)>>]
    /\ UNCHANGED <<nGPU, world, interval, cuda_buffers, held, old_states, pc, sleeping,
                   lastGood, polled>>

EchoArgs == {<<>>, <<Tok(0)>>}

\* CommandHandler("echo", self._echo): no whitelist test
Echo ==
    /\ \E user_id \in Senders, args \in EchoArgs :
          last' = [NoEvent EXCEPT !.kind = "cmd", !.name = "echo", !.sender = user_id,
                                  !.args = args,
                                  !.replies = IF Len(args) # 1
                                              THEN <<Reply("UsageEcho", 0)>>
                                              ELSE <<Reply("Echo", args[1].val)>>]
    /\ UNCHANGED <<nGPU, world, interval, cuda_buffers, held, old_states, pc, sleeping,
                   lastGood, polled>>

\* CommandHandler("gpu", self._get_gpu): no whitelist test; one usage message
\* per device, until a device call raises (done = nGPU: none raised)
GetGpu ==
    /\ \E user_id \in Senders, done \in 0..nGPU, raised \in BOOLEAN :
          /\ ~raised => done = nGPU
          /\ last' = [NoEvent EXCEPT !.kind = "cmd", !.name = "gpu", !.sender = user_id,
                                     !.replies = [i \in 1..done |-> Reply("Usage", i - 1)],
                                     !.raised = raised]
    /\ UNCHANGED <<nGPU, world, interval, cuda_buffers, held, old_states, pc, sleeping,
                   lastGood, polled>>

\* What _get_gpu_quick tells of its call: the states it read, or that a device
\* call raised
QuickEvent(user_id, obs, raised) ==
    [NoEvent EXCEPT !.kind = "cmd", !.name = "g", !.sender = user_id,
                    !.replies = IF raised THEN <<>> ELSE <<Reply("Status", 0)>>,
                    !.raised = raised,
                    !.new_states = IF raised THEN <<>> ELSE QueryStates(obs)]

\* (the handler stores the states it read as the poller's previous states)
GetGpuQuickStores ==
    /\ \E user_id \in Senders :
          \/ last' = QuickEvent(user_id, <<>>, TRUE) /\ old_states' = old_states
          \/ \E obs \in [1..nGPU -> DevObs] :
                /\ last' = QuickEvent(user_id, obs, FALSE)
                /\ old_states' = QueryStates(obs)
    /\ UNCHANGED <<nGPU, world, interval, cuda_buffers, held, pc, sleeping, lastGood, polled>>

\* CommandHandler("g", self._get_gpu_quick): no whitelist test; _query_once
\* and one reply with its message
GetGpuQuick ==
    /\ \E user_id \in Senders :
          \/ last' = QuickEvent(user_id, <<>>, TRUE)
          \/ \E obs \in [1..nGPU -> DevObs] : last' = QuickEvent(user_id, obs, FALSE)
    /\ UNCHANGED <<nGPU, world, interval, cuda_buffers, held, old_states, pc, sleeping,
                   lastGood, polled>>

\* _query_once(handles) on its own: the snapshot it reads and the states it returns
QueryOnce ==
    /\ \E obs \in [1..nGPU -> [used : QueryUsedVals, procs : QueryProcLists]] :
          last' = [NoEvent EXCEPT !.kind = "query", !.obs = obs,
                                  !.new_states = QueryStates(obs)]
    /\ UNCHANGED <<nGPU, world, interval, cuda_buffers, held, old_states, pc, sleeping,
                   lastGood, polled>>

InitQuery ==
    /\ nGPU \in 0..MaxHandles
    /\ world = [i \in 1..nGPU |-> IdleDevice]
    /\ Start

SpecQuery == InitQuery /\ [][QueryOnce]_vars

\* pbar(current, maximum, size) on its own: info.used <= info.total, and the
\* size of get_usage_msg among the sizes
BarSizes == (1..MaxWidth) \cup {BarWidth}

BarOnce ==
    /\ \E maximum \in 1..MaxTotal, size \in BarSizes :
          \E current \in 0..maximum :
             LET b == PBar(current, maximum, size)
             IN  last' = [NoEvent EXCEPT !.kind = "pbar",
                                         !.bar = [current |-> current, maximum |-> maximum,
                                                  size |-> size, filled |-> b.filled,
                                                  blank |-> b.blank]]
    /\ UNCHANGED <<nGPU, world, interval, cuda_buffers, held, old_states, pc, sleeping,
                   lastGood, polled>>

InitBar ==
    /\ nGPU = 0
    /\ world = <<>>
    /\ Start

SpecBar == InitBar /\ [][BarOnce]_vars

\* _poll_gpu on its own, with devices that run several processes of several users
PollProcLists ==
    {<<"alice">>, <<"alice", "chunqiu2">>, <<"chunqiu2", "alice">>, <<"alice", "alice">>}
PollObs == {[used |-> u, procs |-> IF OverThreshold(u) THEN p ELSE <<>>] :
               u \in UsedVals, p \in PollProcLists}

PollStatusWide == PollStatusOn(PollObs)

NextPoll == PollSleep \/ PollEscape \/ PollError \/ PollStatusWide

SpecPoll == Init /\ [][NextPoll]_vars

\* The poll loop with devices whose occupancy changes at any time, device
\* calls that do not raise and deliveries that succeed.  _poll_gpu is the
\* 'while True' of the main thread: a sleep that has started ends and a cycle
\* that can run does run, which is weak fairness of its two steps; nothing
\* ever forces the occupancy to change.
EnvChange ==
    /\ \E w \in [1..nGPU -> PollObs] :
          /\ w # world
          /\ world' = w
    /\ last' = [NoEvent EXCEPT !.kind = "env"]
    /\ UNCHANGED <<nGPU, interval, cuda_buffers, held, old_states, pc, sleeping, lastGood,
                   polled>>

PollLive == PollCycle(world, {NoDelivery})

InitLive ==
    /\ nGPU \in 0..MaxGPU
    /\ world \in [1..nGPU -> PollObs]
    /\ Start

NextLive == PollSleep \/ PollLive \/ EnvChange

SpecLive == InitLive /\ [][NextLive]_vars /\ WF_vars(PollSleep) /\ WF_vars(PollLive)

Next ==
    \/ PollSleep \/ PollEscape \/ PollError \/ PollStatus
    \/ Occupy \/ Release \/ SetInterval
    \/ Register \/ Echo \/ GetGpu \/ GetGpuQuick

Spec == Init /\ [][Next]_vars

\* ===================================================================
\* Properties
\* ===================================================================
Members == {Whitelist[i] : i \in 1..Len(Whitelist)}
SentTo(sends, who) == Cardinality({k \in 1..Len(sends) : sends[k].to = who})
PollEnded == pc = "query" /\ last'.kind = "poll"       \* this step is a poll cycle
ByMember(name) == last.kind = "cmd" /\ last.name = name /\ last.sender \in Members
OneGpuArg == Len(last.args) = 1 /\ last.args[1].num /\ last.args[1].val \in Devices

\* C1: in a poll cycle whose query succeeds the poller broadcasts iff the new
\* state vector differs from the stored one; when it differs every whitelisted
\* recipient is sent the report exactly once, when it is the same nobody is
\* sent anything.
C1_BroadcastIffDiffers ==
    [][(PollEnded /\ last'.call = "none") =>
          IF last'.new_states # old_states
          THEN /\ last'.bcast = "status"
               /\ \A who \in Members : SentTo(last'.sends, who) = 1
          ELSE /\ last'.bcast = "none"
               /\ last'.sends = <<>>]_vars

\* C2: a poll cycle whose query fails leaves the stored state as it was, so the
\* stored state is always the state of the last cycle that succeeded, and a
\* successful cycle sends a status report only if its state differs from it.
C2_FailedCycleKeepsState ==
    [][PollEnded =>
          /\ old_states = lastGood
          /\ old_states' = lastGood'
          /\ last'.call # "none" => old_states' = old_states
          /\ (last'.call = "none" /\ last'.bcast = "status")
                => last'.new_states # lastGood]_vars

C2_Witness ==
    /\ last.kind = "poll" /\ last.call \in {"memory", "procs"}
    /\ pc = "sleep"
    /\ old_states # <<>> /\ \A i \in 1..Len(old_states) : old_states[i] # None

\* C3: a device error raised by any query of a poll cycle (device count, handle
\* lookup, memory info, process list) never ends the poll loop: the error text
\* is sent to the whitelist and the loop goes back to its sleep.  (Stated for
\* the cycles in which no delivery raised.)
C3_DeviceErrorNeverEndsLoop ==
    (/\ last.kind = "poll" /\ last.call # "none"
     /\ \A k \in 1..Len(last.sends) : last.sends[k].result \in {"ok", "Unauthorized"})
    => /\ pc # "dead"
       /\ last.bcast = "error"
       /\ \A who \in Members : SentTo(last.sends, who) = 1

\* C4: in a broadcast (status or error report), a delivery that fails for some
\* recipients (unauthorized or unreachable) does not keep the message from the
\* other recipients and does not end the poll loop.
C4_DeliveryFailureIsSkipped ==
    (last.kind = "poll" /\ last.bcast # "none")
    => /\ \A who \in Members : SentTo(last.sends, who) = 1
       /\ pc # "dead"

\* C5: occ, rel and set_interval from a sender that is not whitelisted, with
\* any arguments, send the rejection reply only and leave the reservation map,
\* the held blocks and the poll interval unchanged.
C5_StrangerChangesNothing ==
    [][(last'.kind = "cmd" /\ last'.name \in {"occ", "rel", "set_interval"}
        /\ last'.sender \notin Members) =>
          /\ last'.replies = <<Reply("NotWhitelisted", last'.sender)>>
          /\ cuda_buffers' = cuda_buffers
          /\ held' = held
          /\ interval' = interval
          /\ last'.allocs = <<>> /\ last'.resets = <<>> /\ ~last'.raised]_vars

C5_Witness ==
    /\ last.kind = "cmd" /\ last.name = "occ" /\ last.sender \notin Members
    /\ last.args = <<Tok(0)>>
    /\ 0 \in Devices /\ 0 \in DOMAIN cuda_buffers
    /\ interval # DefaultInterval

\* C6: the poll interval is an integer in [1, 3600] in every reachable state,
\* and so is every value the poller sleeps for.
C6_IntervalInRange ==
    /\ interval \in 1..3600
    /\ pc = "query" => sleeping \in 1..3600

C6_Witness ==
    /\ ByMember("set_interval") /\ last.args = <<Tok(3601)>>
    /\ interval = 3600
    /\ pc = "query" /\ sleeping = 1

\* C7: release by a whitelisted sender of an in-range id: if the id is not in
\* the reservation map the reply is "not occupied", nothing changes and nothing
\* is raised; if it is, the entry is removed and the reply is "Released" (so a
\* second release of the same id replies "not occupied").
C7_ReleaseIdempotent ==
    [][(last'.kind = "cmd" /\ last'.name = "rel" /\ last'.sender \in Members
        /\ Len(last'.args) = 1 /\ last'.args[1].num /\ last'.args[1].val \in Devices) =>
          LET gid == last'.args[1].val
          IN  /\ ~last'.raised
              /\ IF gid \in DOMAIN cuda_buffers
                 THEN /\ last'.replies = <<Reply("Released", gid)>>
                      /\ gid \notin DOMAIN cuda_buffers'
                 ELSE /\ last'.replies = <<Reply("NotOccupied", gid)>>
                      /\ cuda_buffers' = cuda_buffers
                      /\ held' = held
                      /\ last'.resets = <<>>]_vars

C7_Witness ==
    /\ ByMember("rel") /\ OneGpuArg
    /\ last.replies = <<Reply("NotOccupied", last.args[1].val)>>
    /\ ~last.raised
    /\ last.args[1].val \notin DOMAIN cuda_buffers

\* C8: occupy of a valid id by a whitelisted sender, with an allocator that
\* fails twice and then succeeds: the allocator is called with T, 0.8T and
\* 0.64T (T = 0.95 of the free memory, truncated each time), the third block
\* is stored under the id and the reply reports success with the third size.
C8_BackoffThirdAttempt ==
    (ByMember("occ") /\ OneGpuArg /\ last.script = <<FALSE, FALSE, TRUE>>)
    => LET T == (last.free * 95) \div 100
           T2 == (T * 8) \div 10
           T3 == (T2 * 8) \div 10
           gid == last.args[1].val
       IN  /\ last.allocs = <<T, T2, T3>>
           /\ gid \in DOMAIN cuda_buffers /\ cuda_buffers[gid] = T3
           /\ last.replies # <<>>
           /\ last.replies[Len(last.replies)] = Reply("Allocated", T3)

\* C9: a device id is a key of the reservation map iff this process holds a
\* live block on the device, and then it holds exactly one: an occupy of a
\* reserved id leaves one block, a release of a reserved id leaves none.
C9_MapIffHeld ==
    /\ DOMAIN cuda_buffers \subseteq Devices
    /\ \A gid \in Devices :
          held[gid] = IF gid \in DOMAIN cuda_buffers THEN 1 ELSE 0

C9_Witness ==
    /\ ByMember("occ") /\ OneGpuArg
    /\ last.wasHeld /\ last.script[1]
    /\ held[last.args[1].val] = 1

\* C10: a device is OCCUPIED iff its used memory is strictly over 1 GiB
\* (2^30 bytes gives AVAILABLE, 2^30 + 1 gives OCCUPIED), whatever processes
\* are listed on it.
C10_ThresholdExclusive ==
    last.kind = "query" =>
        \A i \in 1..Len(last.obs) :
            /\ last.new_states[i].tag = (IF last.obs[i].used > 1073741824
                                         THEN "OCCUPIED" ELSE "AVAILABLE")
            /\ last.obs[i].used = 1073741824 => last.new_states[i] = AVAILABLE

C10_Witness ==
    /\ last.kind = "query" /\ Len(last.obs) = 2
    /\ last.obs[1] = [used |-> 1073741824, procs |-> <<"alice">>]
    /\ last.new_states[1].tag = "AVAILABLE"
    /\ last.obs[2] = [used |-> 1073741825, procs |-> <<>>]
    /\ last.new_states[2].tag = "OCCUPIED"

\* C11: for 0 <= used <= total, total > 0, width >= 1 the usage bar has width
\* segments in all (filled plus blank), of which min(width, round(used / total
\* * width) + 1) are filled: at least one at used = 0, all width and no more at
\* used = total, and never fewer than for a smaller used.
C11_BarFixedWidth ==
    last.kind = "pbar" =>
        LET b == last.bar
            claimed == RoundHalfEven(b.current * b.size, b.maximum) + 1
        IN  /\ b.filled + b.blank = b.size
            /\ b.filled = IF claimed < b.size THEN claimed ELSE b.size
            /\ b.current = 0 => b.filled >= 1
            /\ b.current = b.maximum => b.filled = b.size
            /\ \A c \in 0..b.current : PBar(c, b.maximum, b.size).filled <= b.filled

\* C12: the first poll cycle whose query succeeds starts a status broadcast to
\* the whitelist, for every device count (0 included) and every occupancy
\* observed.  (Whether each delivery of the broadcast arrives is C4's subject.)
C12_FirstCycleBroadcasts ==
    [][(PollEnded /\ last'.call = "none" /\ ~polled) => last'.bcast = "status"]_vars

\* C13: the poller reads the interval once, when it starts a sleep: the sleep
\* it starts lasts the interval of that moment (so the one set by the last
\* successful set_interval before it), and no command, set_interval included,
\* changes the duration of the sleep in progress.
C13_IntervalReadAtSleep ==
    [][/\ last'.kind = "sleep" => (sleeping' = interval /\ interval' = interval)
       /\ last'.kind = "cmd" => sleeping' = sleeping]_vars

C13_Witness ==
    /\ ByMember("set_interval") /\ last.replies = <<Reply("IntervalSet", 3600)>>
    /\ pc = "query" /\ sleeping = 5
    /\ interval = 3600

\* C14: occupy of a valid id by a whitelisted sender, with an allocator that
\* fails at every attempt: the allocator is called exactly 3 times, the
\* reservation map is as before the command, the sender gets a reply that
\* reports the failure, and the handler ends without an exception.
C14_AllAttemptsFail ==
    [][(last'.kind = "cmd" /\ last'.name = "occ" /\ last'.sender \in Members
        /\ last'.script = <<FALSE, FALSE, FALSE>>) =>
          /\ Len(last'.allocs) = 3
          /\ cuda_buffers' = cuda_buffers
          /\ last'.replies # <<>>
          /\ last'.replies[Len(last'.replies)].text = "CouldNotAllocate"
          /\ ~last'.raised]_vars

\* the arguments of command e are of the wrong number, or one integer out of
\* range (n devices)
WrongArity(e) ==
    \/ e.name \in {"occ", "set_interval"} /\ Len(e.args) # 1
    \/ e.name = "rel" /\ Len(e.args) > 1
OutOfRange(e, n) ==
    /\ Len(e.args) = 1 /\ e.args[1].num
    /\ \/ e.name \in {"occ", "rel"} /\ e.args[1].val \notin 0..(n - 1)
       \/ e.name = "set_interval" /\ e.args[1].val \notin 1..3600

\* C15: occ, rel and set_interval from a whitelisted sender with a wrong number
\* of arguments or an integer out of range send one reply, the usage or range
\* error, and stop: no allocation, no release, no device reset, no per-device
\* release report, and the reservation map, the held blocks and the interval
\* are as before.
C15_InvalidArgsStop ==
    [][(last'.kind = "cmd" /\ last'.name \in {"occ", "rel", "set_interval"}
        /\ last'.sender \in Members
        /\ (WrongArity(last') \/ OutOfRange(last', nGPU))) =>
          /\ Len(last'.replies) = 1
          /\ last'.replies[1].text \in {"UsageOcc", "UsageRel", "InvalidGPU", "IntervalRange"}
          /\ last'.allocs = <<>> /\ last'.resets = <<>> /\ ~last'.raised
          /\ cuda_buffers' = cuda_buffers
          /\ held' = held
          /\ interval' = interval]_vars

UserSet(label) == {label.users[k] : k \in 1..Len(label.users)}
SameOccupancy(a, b) ==
    /\ Len(a) = Len(b)
    /\ \A i \in 1..Len(a) : a[i].tag = b[i].tag /\ UserSet(a[i]) = UserSet(b[i])

\* C18: the label of a device depends only on its status and on the set of its
\* users: a successful poll cycle in which every device has the status and the
\* set of users it had at the successful cycle before sends no broadcast,
\* whatever the order of the process list and the number of processes of a user.
C18_LabelIsUserSet ==
    [][(PollEnded /\ last'.call = "none" /\ polled
        /\ SameOccupancy(last'.new_states, old_states)) => last'.bcast = "none"]_vars

\* C19: the poll loop and the commands start, echo, gpu and g never write the
\* reservation map (nor the blocks held) nor the poll interval; no command
\* handler writes the poller's stored state or moves the poller; so when g has
\* just read a state that differs from the one of the last successful cycle,
\* the next cycle that reads the same state still starts its broadcast.
C19_FrameOfPollerAndQueries ==
    [][/\ (last'.kind \in {"sleep", "poll"}
           \/ (last'.kind = "cmd" /\ last'.name \in {"start", "echo", "gpu", "g"}))
          => (cuda_buffers' = cuda_buffers /\ held' = held /\ interval' = interval)
       /\ last'.kind = "cmd"
          => (old_states' = old_states /\ lastGood' = lastGood /\ pc' = pc
              /\ polled' = polled)
       /\ (PollEnded /\ last'.call = "none"
           /\ last.kind = "cmd" /\ last.name = "g" /\ ~last.raised
           /\ last'.new_states = last.new_states /\ last.new_states # lastGood)
          => last'.bcast = "status"]_vars

C19_Witness ==
    /\ last.kind = "cmd" /\ last.name = "g" /\ last.replies = <<Reply("Status", 0)>>
    /\ polled /\ pc = "query"
    /\ last.new_states # old_states /\ old_states = lastGood
    /\ DOMAIN cuda_buffers # {} /\ interval # 5

\* the labels a device can show; "device i shows label l"; "the last step
\* was a cycle that sent a report with l for device i to every whitelist entry
\* and stored it"
LiveLabels == {DeviceState(o) : o \in PollObs}
Shows(i, l) == i <= nGPU /\ QueryStates(world)[i] = l
Reported(i, l) ==
    /\ last.kind = "poll" /\ last.bcast = "status" /\ last.new_states[i] = l
    /\ \A who \in Members : SentTo(last.sends, who) = 1
    /\ old_states[i] = l

\* C20: with a fair poll loop, device calls that do not raise and deliveries
\* that succeed, the loop never stops, it runs a cycle again and again, a
\* cycle that reads states other than the stored ones reports them to every
\* whitelist entry, and whenever a device shows a label that is not the stored
\* one, either it stops showing it or a cycle reports it to every whitelist
\* entry.
C20_PersistentChangeIsReported ==
    /\ [](pc # "dead")
    /\ []<>(last.kind = "poll")
    /\ [][(PollEnded /\ QueryStates(world) # old_states) =>
             (last'.bcast = "status" /\ last'.new_states = QueryStates(world)
              /\ \A who \in Members : SentTo(last'.sends, who) = 1)]_vars
    /\ \A i \in 1..MaxGPU : \A l \in LiveLabels :
          (Shows(i, l) /\ old_states[i] # l) ~> (~Shows(i, l) \/ Reported(i, l))

C20_Witness ==
    /\ nGPU >= 1
    /\ ~last.first
    /\ Shows(1, AVAILABLE)
    /\ Reported(1, AVAILABLE)

====
